---- MODULE Spec2Model ----
(***************************************************************************)
(* Commit ingestion pipeline of the timeline CLI: the orchestrator         *)
(* generateTimeline (src/timeline.js and its TypeScript successor), the    *)
(* four platform providers with their page walks, and date bucketing.      *)
(*                                                                         *)
(* Error messages are sequences of tokens.  String.includes(x) is token    *)
(* membership: the tokens are cut so that the three substrings the code    *)
(* searches for ("not found", "rate limit", "409") are tokens of their own *)
(* and occur inside no other token.                                        *)
(***************************************************************************)
EXTENDS Integers, Sequences, FiniteSets, TLC

VARIABLES
  impl,            \* "js": src/timeline.js + *.js providers, "ts": the TypeScript sources
  platform,        \* first argument of generateTimeline
  username,        \* second argument of generateTimeline
  repos,           \* explicit repository list (third argument)
  verbose,         \* config.verbose !== false
  spinner,         \* TRUE iff a progress reporter was passed
  includeMerges,   \* config.includeMerges !== false
  chartType,       \* config.chartType || 'line'
  revision,        \* which copy of the JavaScript provider class is loaded
  pc,              \* position of the run
  reposToProcess,
  datasets,
  totalCommits,
  processedRepos,
  skippedRepos,
  errors,
  failure,         \* message of the Error the run was rejected with, <<>> if none
  history,         \* commits the platform holds for the repository being listed
  walk,            \* local state of the page walk in progress
  calls,           \* provider calls issued so far, in order
  reports,         \* spinner.warn / spinner.info events, in order
  chart,           \* what generateChart was called with, <<>> before
  answer,          \* history: the platform's answer to the discovery, <<>> before
  returned,        \* history: the list the provider's discovery returned
  outcomes,        \* history: how each commit listing ended, in order
  given,           \* the commit list groupByDate is applied to on its own
  buckets,         \* <<what groupByDate returned for given>>, <<>> before
  offered,         \* the discovery response fetchRepos is applied to on its own
  listed,          \* <<what fetchRepos made of offered>>, <<>> before
  stats,           \* <<what calculateStats returned for datasets>>, <<>> before
  allDates         \* <<the labels the chart generator merged from datasets>>, <<>> before

vars == <<impl, platform, username, repos, verbose, spinner, includeMerges,
          chartType, revision, pc,
          reposToProcess, datasets, totalCommits, processedRepos,
          skippedRepos, errors, failure, history, walk, calls, reports, chart,
          answer, returned, outcomes, given, buckets, offered, listed, stats,
          allDates>>

bucketing == <<given, buckets>>

discovering == <<offered, listed>>

reporting == <<stats, allDates>>

inputs == <<impl, platform, username, repos, verbose, spinner, includeMerges,
            chartType, revision>>

-----------------------------------------------------------------------------
(* Bounds *)

MaxRepos == 2          \* longest repository list (explicit or discovered)
LongHistory == 12      \* commits of the longest history; one commit per page
MaxCommits == 3        \* longest commit list bucketed on its own
MaxDay == 3            \* calendar days 1..MaxDay are written in commit dates
MaxSeries == 6         \* most datasets reported on their own

(* Program constants *)

PageCap == 10          \* "if (page > 10) break" / "pageCount >= 10"
TopShown == 5          \* "stats.topRepos.slice(0, 5)"

RepoNames == {"a", "b"}
Impls == {"js", "ts"}
Platforms == {"github", "gitlab", "bitbucket", "sourcehut"}
\* Names every object inherits: providers[name] is not undefined for them.
\* Object.prototype.constructor is Object, which new accepts; the other
\* properties of Object.prototype are methods, which are functions that are
\* not constructors, and __proto__, which reads as Object.prototype itself:
\* new rejects them all alike.
InheritedConstructors == {"constructor"}
InheritedMethods ==
  {"toString", "toLocaleString", "valueOf", "hasOwnProperty", "isPrototypeOf",
   "propertyIsEnumerable", "__defineGetter__", "__defineSetter__",
   "__lookupGetter__", "__lookupSetter__", "__proto__"}
PlatformInputs == Platforms \cup {"gitea"} \cup InheritedConstructors \cup {"toString"}
\* The copies of the JavaScript provider classes the sources hold.
\*   "main":     providers/github.js, providers/bitbucket.js,
\*               providers/sourcehut.js and the GitLabProvider of part_000;
\*   "plain":    providers/gitlab.js and the JavaScript BitbucketProvider
\*               that closes providers/bitbucket.ts: no filter of the
\*               listing, no test of a status, no merge marks;
\*   "part_001": the GitLabProvider and the SourceHutProvider of part_001.
Revisions == {"main", "plain", "part_001"}
\* The copies of the JavaScript class of a platform.
CopiesOf(p) ==
  CASE p = "gitlab"    -> {"main", "plain", "part_001"}
    [] p = "bitbucket" -> {"main", "plain"}
    [] p = "sourcehut" -> {"main", "part_001"}
    [] OTHER           -> {"main"}
\* The copies a run of timeline.js loads as ./providers/<platform>.js; the
\* JavaScript class in providers/bitbucket.ts is in no file of that name.
RunRevisions(i, p) ==
  IF i = "js" THEN CopiesOf(p) \ (IF p = "bitbucket" THEN {"plain"} ELSE {})
  ELSE {"main"}
\* The copies fetchRepos is applied to on its own.
DiscoveryRevisions(i, p) == IF i = "js" THEN CopiesOf(p) ELSE {"main"}
\* The provider source in use: a further copy of the JavaScript class, or
\* the source of generateTimeline.
ProviderSource(i, rv) == IF i = "js" /\ rv # "main" THEN rv ELSE i
\* Chart types: the default one, one that draws no common date axis, and
\* one the chart module does not know.
ChartTypes == {"line", "bar", "nosuch"}
FailStatuses == {403, 404, 429, 500}       \* non-ok answers to a discovery
PageFailStatuses == {403, 409, 429}        \* non-ok answers to a page request
User == "u"

-----------------------------------------------------------------------------
(* Generic helpers *)

RECURSIVE SeqsUpTo(_, _)
SeqsUpTo(S, n) ==
  IF n = 0 THEN {<<>>}
  ELSE LET shorter == SeqsUpTo(S, n - 1)
       IN shorter \cup {Append(s, x) : s \in {t \in shorter : Len(t) = n - 1}, x \in S}

RECURSIVE SumSeq(_)
SumSeq(s) == IF s = <<>> THEN 0 ELSE Head(s) + SumSeq(Tail(s))

Includes(msg, tok) == \E i \in DOMAIN msg : msg[i] = tok

StatusText(s) ==
  CASE s = 401 -> "Unauthorized"
    [] s = 403 -> "Forbidden"
    [] s = 404 -> "Not Found"
    [] s = 409 -> "Conflict"
    [] s = 429 -> "Too Many Requests"
    [] OTHER   -> "Internal Server Error"

StatusToken(s) ==
  CASE s = 401 -> "401"
    [] s = 403 -> "403"
    [] s = 404 -> "404"
    [] s = 409 -> "409"
    [] s = 429 -> "429"
    [] OTHER   -> "500"

\* `${chartsDir}/timeline-${chartType}.png`, chartsDir being 'charts'
ChartFile(t) == <<"charts/timeline-", t, ".png">>

\* The chart types whose generator does not merge the labels of the datasets
\* into one date axis; every other type is drawn by generateLineChart (the
\* default of the switch) or, in the TypeScript source, generateMixedChart.
NoAxisTypes(i) ==
  IF i = "js" THEN {"bar", "pie", "doughnut", "radar", "heatmap"}
  ELSE {"bar", "pie", "doughnut", "radar", "heatmap", "polarArea", "scatter", "bubble"}

MergesLabels(i, t) == t \notin NoAxisTypes(i)

\* The Errors ensureCanvasWorks throws.
CanvasErrors ==
  {<<"Canvas module not found. System dependencies may be missing.">>,
   <<"Canvas rebuild failed. System dependencies may be missing.">>,
   <<"Canvas needs system dependencies. See instructions above.">>}

\* The Error of a line or mixed chart that has no label to draw.
NoLabelsMessage(t) ==
  IF t = "mixed" THEN <<"No data available to generate mixed chart">>
  ELSE <<"No data available to generate line chart">>

\* The TypeError of a call of a method the provider object does not have.
NotAFunction(method) == <<"provider.", method, " is not a function">>

TypeErrorMsg(method) == <<"Cannot read properties of null (reading '", method, "')">>

-----------------------------------------------------------------------------
(* Commits.  A platform commit carries its date as an ISO string: ymd is   *)
(* the calendar day written in the string, shift the number of days to add *)
(* to get the UTC day (non-zero when the string carries a zone offset).    *)

Commit(d, s, m) == [ymd |-> d, shift |-> s, isMerge |-> m]

HistoryCommit(i) == Commit(1 + (i % 2), 0, i % 3 = 0)

Histories ==
  { <<>>,
    <<Commit(1, 0, FALSE)>>,
    <<Commit(2, 0, TRUE), Commit(2, 0, FALSE), Commit(1, 1, FALSE)>>,
    [i \in 1..LongHistory |-> HistoryCommit(i)] }

\* The platform serves one commit per page.
PageItems(h, p) == IF p \in DOMAIN h THEN <<h[p]>> ELSE <<>>

-----------------------------------------------------------------------------
(* Repository discovery: fetchRepos / fetchRepositories.                   *)
(* A raw repository is what the platform lists: its name, whether it is a  *)
(* fork, and its size (size for GitHub and Bitbucket, the commit count for *)
(* GitLab and SourceHut; 0 also stands for an absent count).               *)

RawRepos == [name : RepoNames, fork : BOOLEAN, size : {0, 1}]

\* data.filter(r => r.size > 0).map(r => r.name); GitHub also drops forks
SelectNames(raw, dropForks) ==
  LET kept == SelectSeq(raw, LAMBDA r : (dropForks => ~r.fork) /\ r.size > 0)
  IN [k \in DOMAIN kept |-> kept[k].name]

\* data.map((p) => p.path): every listed repository, unfiltered
AllNames(raw) == [k \in DOMAIN raw |-> raw[k].name]

Ok(v) == [ok |-> TRUE, value |-> v]
Err(m) == [ok |-> FALSE, msg |-> m]

\* The catch block shared by the providers' discovery: "not found" and
\* "rate limit" messages pass through, every other one gets the prefix.
Rewrap(prefix, passRateLimit, msg) ==
  IF Includes(msg, "not found") \/ (passRateLimit /\ Includes(msg, "rate limit"))
  THEN msg
  ELSE <<prefix>> \o msg

GitHubFetchRepos(resp) ==
  IF resp.status # 200
  THEN Err(Rewrap("GitHub API error: ", TRUE,
         IF resp.status = 404 THEN <<"User '", username, "' ", "not found", " on GitHub">>
         ELSE IF resp.status = 403
              THEN IF resp.quotaZero
                   THEN <<"GitHub ", "rate limit", " exceeded. Resets at ", "T",
                          ". Use a GitHub token to increase limit (export GITHUB_TOKEN=your_token)">>
                   ELSE <<"GitHub API ", "rate limit",
                          " exceeded. Please wait or use authentication token (export GITHUB_TOKEN=your_token)">>
              ELSE <<"Failed to fetch repos: ", StatusText(resp.status)>>))
  ELSE Ok(SelectNames(resp.listing, TRUE))

GitLabFetchRepos(i, resp) ==
  IF i = "plain"
  THEN IF resp.userStatus # 200
       THEN Err(<<"Failed to fetch user: ", StatusText(resp.userStatus)>>)
       ELSE IF ~resp.userFound
       THEN Err(<<"User ", "not found">>)
       ELSE IF resp.status # 200
       THEN Err(<<"Failed to fetch projects: ", StatusText(resp.status)>>)
       ELSE Ok(AllNames(resp.listing))
  ELSE IF i = "part_001"
  THEN IF resp.userStatus # 200
       THEN Err(Rewrap("GitLab API error: ", FALSE,
              <<"Failed to fetch user: ", StatusText(resp.userStatus)>>))
       ELSE IF ~resp.userFound
       THEN Err(<<"User '", username, "' ", "not found", " on GitLab">>)
       ELSE IF resp.status # 200
       THEN Err(Rewrap("GitLab API error: ", FALSE,
              <<"Failed to fetch projects: ", StatusText(resp.status)>>))
       ELSE Ok(SelectNames(resp.listing, FALSE))
  ELSE IF resp.userStatus # 200
  THEN Err(Rewrap("GitLab API error: ", TRUE,
         IF resp.userStatus = 401
         THEN <<"GitLab authentication failed. Check your GITLAB_TOKEN">>
         ELSE IF resp.userStatus = 429
              THEN <<"GitLab ", "rate limit",
                     " exceeded. Please set GITLAB_TOKEN or wait before retrying">>
              ELSE <<"Failed to fetch user: ", StatusText(resp.userStatus)>>))
  ELSE IF ~resp.userFound
  THEN Err(<<"User '", username, "' ", "not found", " on GitLab">>)
  ELSE IF resp.status # 200
  THEN Err(Rewrap("GitLab API error: ", TRUE,
         IF resp.status = 429 THEN <<"rate limit", " exceeded">>
         ELSE <<"Failed to fetch projects: ", StatusText(resp.status)>>))
  ELSE Ok(SelectNames(resp.listing, FALSE))

BitbucketFetchRepos(i, resp) ==
  IF i = "plain"
  THEN IF resp.status # 200
       THEN Err(<<"Failed to fetch repos: ", StatusText(resp.status)>>)
       ELSE Ok(AllNames(resp.listing))
  ELSE IF resp.status # 200
  THEN Err(Rewrap("Bitbucket API error: ", i = "ts",
         IF resp.status = 404 THEN <<"User '", username, "' ", "not found", " on Bitbucket">>
         ELSE IF i = "ts" /\ resp.status = 429
              THEN <<"Bitbucket ", "rate limit",
                     " exceeded. Please set BITBUCKET_APP_PASSWORD or wait before retrying">>
              ELSE <<"Failed to fetch repos: ", StatusText(resp.status)>>))
  ELSE Ok(SelectNames(resp.listing, FALSE))

SourceHutFetchRepos(i, resp) ==
  IF resp.status # 200
  THEN Err(Rewrap("SourceHut API error: ", i \in {"ts", "part_001"},
         IF resp.status = 404 THEN <<"User '", username, "' ", "not found", " on SourceHut">>
         ELSE IF i \in {"ts", "part_001"} /\ resp.status = 429
              THEN <<"SourceHut ", "rate limit",
                     " exceeded. Please set SOURCEHUT_TOKEN or wait before retrying">>
              ELSE <<"Failed to fetch repos: ", StatusText(resp.status)>>))
  ELSE Ok(SelectNames(resp.listing, FALSE))

FetchRepos(p, i, resp) ==
  CASE p = "github"    -> GitHubFetchRepos(resp)
    [] p = "gitlab"    -> GitLabFetchRepos(i, resp)
    [] p = "bitbucket" -> BitbucketFetchRepos(i, resp)
    [] OTHER           -> SourceHutFetchRepos(i, resp)

\* What the platform may answer to a discovery.
RepoResponse(st, ust, found, quota, raw) ==
  [status |-> st, userStatus |-> ust, userFound |-> found, quotaZero |-> quota,
   listing |-> raw]

RepoResponses(p) ==
  {RepoResponse(200, 200, TRUE, FALSE, raw) : raw \in SeqsUpTo(RawRepos, MaxRepos)}
  \cup {RepoResponse(st, 200, TRUE, q, <<>>) :
          st \in FailStatuses, q \in IF p = "github" THEN BOOLEAN ELSE {FALSE}}
  \cup IF p = "gitlab"
       THEN {RepoResponse(200, ust, TRUE, FALSE, <<>>) : ust \in {401, 404, 429}}
            \cup {RepoResponse(200, 200, FALSE, FALSE, <<>>)}
       ELSE {}

-----------------------------------------------------------------------------
(* Commit listing: fetchAllCommits (js) / fetchCommits (ts).               *)
(* A page response is [status, items, next, results]: next tells whether   *)
(* a Bitbucket body carries a "next" URL, results whether a SourceHut body *)
(* has a results field.                                                    *)

PageResponse(st, its, nx, res) ==
  [status |-> st, items |-> its, next |-> nx, results |-> res]

\* Local variables of a page walk; requests counts the page requests issued.
WalkInit == [page |-> 1, pageCount |-> 0, allCommits |-> <<>>, requests |-> 1]

\* MapCommit reading the parents of a SourceHut commit too.
MapCommit_SourceHutParents(p, i, c) ==
  IF i = "ts" THEN [date |-> c.ymd + c.shift]
  ELSE [date |-> [ymd |-> c.ymd, shift |-> c.shift], isMerge |-> c.isMerge]

\* The commit object a provider builds from a platform commit; the plain
\* copies set no isMerge, which reads as false.
MapCommit(p, i, c) ==
  IF i = "ts" THEN [date |-> c.ymd + c.shift]
  ELSE [date |-> [ymd |-> c.ymd, shift |-> c.shift],
        isMerge |-> IF p = "sourcehut" \/ i = "plain" THEN FALSE ELSE c.isMerge]

MapCommits(p, i, items) == [k \in DOMAIN items |-> MapCommit(p, i, items[k])]

\* "if (config.includeMerges === false) allCommits = allCommits.filter(c => !c.isMerge)"
FilterMerges(commits, withMerges) ==
  IF withMerges THEN commits ELSE SelectSeq(commits, LAMBDA c : ~c.isMerge)

\* The Error a non-ok page response is turned into, as it leaves the provider.
PageError(p, i, st) ==
  CASE p = "github" /\ i = "js" ->
         <<"Failed to fetch commits: ">> \o
           (IF st = 403 THEN <<"rate limit", " exceeded">>
            ELSE <<StatusToken(st), ": ", StatusText(st)>>)
    [] p = "github" /\ i = "ts" ->
         IF st = 403 THEN <<"rate limit", " exceeded">>
         ELSE <<StatusToken(st), ": ", StatusText(st)>>
    [] p = "gitlab" ->
         IF st = 429 /\ i \notin {"plain", "part_001"} THEN <<"rate limit", " exceeded">>
         ELSE <<"Failed to fetch commits: ", StatusText(st)>>
    [] OTHER ->
         IF i \in {"ts", "part_001"} /\ st = 429 THEN <<"rate limit", " exceeded">>
         ELSE <<"Failed to fetch commits: ", StatusText(st)>>

Continue(w) == [kind |-> "continue", walk |-> [w EXCEPT !.requests = @ + 1]]
Return(commits) == [kind |-> "return", commits |-> commits]
Throw(m) == [kind |-> "throw", msg |-> m]

\* The js providers filter merges before they return; the ts ones and the
\* plain js copies have no filter.
Finish(i, commits, withMerges) ==
  Return(IF i \in {"js", "part_001"} THEN FilterMerges(commits, withMerges)
         ELSE commits)

\* NumberedPage that stops at the cap before keeping the page just fetched.
NumberedPage_CapDropsPage(i, w, items, mapped, withMerges) ==
  IF Len(items) = 0 THEN Finish(i, w.allCommits, withMerges)
  ELSE LET all == w.allCommits \o mapped
           page == w.page + 1
       IN IF page > PageCap THEN Finish(i, w.allCommits, withMerges)
          ELSE Continue([w EXCEPT !.allCommits = all, !.page = page])

\* NumberedPage with the cap tested one page late.
NumberedPage_LateCap(i, w, items, mapped, withMerges) ==
  IF Len(items) = 0 THEN Finish(i, w.allCommits, withMerges)
  ELSE LET all == w.allCommits \o mapped
           page == w.page + 1
       IN IF page > PageCap + 1 THEN Finish(i, all, withMerges)
          ELSE Continue([w EXCEPT !.allCommits = all, !.page = page])

\* One turn of the page-number loop of the GitHub and GitLab providers,
\* after a page with these items arrived.
NumberedPage(i, w, items, mapped, withMerges) ==
  IF Len(items) = 0 THEN Finish(i, w.allCommits, withMerges)
  ELSE LET all == w.allCommits \o mapped
           page == w.page + 1
       IN IF page > PageCap THEN Finish(i, all, withMerges)
          ELSE Continue([w EXCEPT !.allCommits = all, !.page = page])

GitHubStep(i, w, resp, withMerges) ==
  IF resp.status = 200
  THEN NumberedPage(i, w, resp.items, MapCommits("github", i, resp.items), withMerges)
  ELSE IF resp.status = 409
  THEN IF i = "js" THEN NumberedPage(i, w, <<>>, <<>>, withMerges) ELSE Return(<<>>)
  ELSE LET e == PageError("github", i, resp.status)
       IN IF Includes(e, "409") THEN Return(<<>>) ELSE Throw(e)

\* GitLabStep whose failure on a later page returns the pages fetched so far.
GitLabStep_KeepPages(i, w, resp, withMerges) ==
  IF resp.status = 200
  THEN NumberedPage(i, w, resp.items, MapCommits("gitlab", i, resp.items), withMerges)
  ELSE IF w.allCommits # <<>> THEN Finish(i, w.allCommits, withMerges)
  ELSE Throw(PageError("gitlab", i, resp.status))

GitLabStep(i, w, resp, withMerges) ==
  IF resp.status = 200
  THEN NumberedPage(i, w, resp.items, MapCommits("gitlab", i, resp.items), withMerges)
  ELSE Throw(PageError("gitlab", i, resp.status))

BitbucketStep(i, w, resp, withMerges) ==
  IF resp.status # 200 THEN Throw(PageError("bitbucket", i, resp.status))
  ELSE LET all == w.allCommits \o MapCommits("bitbucket", i, resp.items)
           count == w.pageCount + 1
           w2 == [w EXCEPT !.allCommits = all, !.pageCount = count]
       IN IF ~resp.next \/ count >= PageCap
          THEN Finish(i, all, withMerges)
          ELSE Continue(w2)

SourceHutStep(i, w, resp, withMerges) ==
  IF resp.status # 200 THEN Throw(PageError("sourcehut", i, resp.status))
  ELSE IF ~resp.results THEN Return(<<>>)
  ELSE Finish(i, MapCommits("sourcehut", i, resp.items), withMerges)

WalkStep(p, i, w, resp, withMerges) ==
  CASE p = "github"    -> GitHubStep(i, w, resp, withMerges)
    [] p = "gitlab"    -> GitLabStep(i, w, resp, withMerges)
    [] p = "bitbucket" -> BitbucketStep(i, w, resp, withMerges)
    [] OTHER           -> SourceHutStep(i, w, resp, withMerges)

\* What the platform may answer to request number w.requests of a listing of
\* a repository with history h.
PageResponses(p, h, w) ==
  LET n == w.requests
      more == n < Len(h)
  IN  {PageResponse(st, <<>>, FALSE, FALSE) : st \in PageFailStatuses}
      \cup IF p = "sourcehut"
           THEN {PageResponse(200, h, FALSE, TRUE), PageResponse(200, <<>>, FALSE, FALSE)}
           ELSE {PageResponse(200, PageItems(h, n), nx, TRUE) :
                   nx \in IF more THEN {TRUE} ELSE BOOLEAN}

-----------------------------------------------------------------------------
(* Date bucketing: groupByDate.                                            *)

\* c.date.slice(0, 10) (js) / c.date.toISOString().slice(0, 10) (ts)
DateKey(i, c) == IF i = "js" THEN c.date.ymd ELSE c.date

\* map[date] = (map[date] || 0) + 1, entries kept in insertion order
RECURSIVE CountInto(_, _)
CountInto(entries, keys) ==
  IF keys = <<>> THEN entries
  ELSE LET d == Head(keys)
           hit == {k \in DOMAIN entries : entries[k][1] = d}
       IN CountInto(IF hit = {}
                    THEN Append(entries, <<d, 1>>)
                    ELSE [k \in DOMAIN entries |->
                            IF k \in hit THEN <<d, entries[k][2] + 1>> ELSE entries[k]],
                    Tail(keys))

\* .sort(([a], [b]) => new Date(a) - new Date(b)): a stable sort by date
RECURSIVE InsertByDate(_, _)
InsertByDate(sorted, e) ==
  IF sorted = <<>> THEN <<e>>
  ELSE IF e[1] < Head(sorted)[1] THEN <<e>> \o sorted
       ELSE <<Head(sorted)>> \o InsertByDate(Tail(sorted), e)

\* SortByDate that leaves the entries in insertion order.
SortByDate_Unsorted(entries) == entries

RECURSIVE SortByDate(_)
SortByDate(entries) ==
  IF entries = <<>> THEN <<>>
  ELSE InsertByDate(SortByDate(SubSeq(entries, 1, Len(entries) - 1)),
                    entries[Len(entries)])

\* groupByDate that emits every day from the first to the last, with a zero
\* count for the days without commits.
groupByDate_ZeroFill(i, commits) ==
  LET keys == [k \in DOMAIN commits |-> DateKey(i, commits[k])]
      sorted == SortByDate(CountInto(<<>>, keys))
      first == IF sorted = <<>> THEN 1 ELSE sorted[1][1]
      last == IF sorted = <<>> THEN 0 ELSE sorted[Len(sorted)][1]
      countOf(d) == IF \E k \in DOMAIN sorted : sorted[k][1] = d
                    THEN sorted[CHOOSE k \in DOMAIN sorted : sorted[k][1] = d][2]
                    ELSE 0
  IN [labels |-> [k \in 1..(last - first + 1) |-> first + k - 1],
      data   |-> [k \in 1..(last - first + 1) |-> countOf(first + k - 1)]]

groupByDate(i, commits) ==
  LET keys == [k \in DOMAIN commits |-> DateKey(i, commits[k])]
      sorted == SortByDate(CountInto(<<>>, keys))
  IN [labels |-> [k \in DOMAIN sorted |-> sorted[k][1]],
      data   |-> [k \in DOMAIN sorted |-> sorted[k][2]]]

-----------------------------------------------------------------------------
(* The orchestrator: generateTimeline.                                     *)
(* The accumulators of a run are gathered in a record o; thrown is the     *)
(* message of an Error that leaves generateTimeline, <<>> if there is none.*)

Event(lvl, r, txt, k) == [level |-> lvl, repo |-> r, text |-> txt, n |-> k]

Accumulators(ds, total, skipped, errs, reps) ==
  [datasets |-> ds, totalCommits |-> total, skippedRepos |-> skipped,
   errors |-> errs, reports |-> reps, thrown |-> <<>>]

\* CatchListing recording a fixed text instead of the error's message.
CatchListing_FixedText(i, v, sp, o, repo, msg) ==
  LET o2 == [o EXCEPT !.skippedRepos = @ + 1,
                      !.errors = Append(@, [repo |-> repo, error |-> <<"Failed">>])]
  IN IF v /\ sp
     THEN [o2 EXCEPT !.reports = Append(@, Event("warn", repo, msg, 0))]
     ELSE o2

\* CatchListing with the error thrown on instead of recorded and passed over.
CatchListing_Rethrow(i, v, sp, o, repo, msg) ==
  [o EXCEPT !.skippedRepos = @ + 1,
            !.errors = Append(@, [repo |-> repo, error |-> msg]),
            !.thrown = msg]

\* The catch block of the repository loop.
CatchListing(i, v, sp, o, repo, msg) ==
  LET o2 == [o EXCEPT !.skippedRepos = @ + 1,
                      !.errors = Append(@, [repo |-> repo, error |-> msg])]
  IN IF ~v THEN o2
     ELSE IF sp THEN [o2 EXCEPT !.reports = Append(@, Event("warn", repo, msg, 0))]
     ELSE IF i = "js" THEN [o2 EXCEPT !.thrown = TypeErrorMsg("warn")]
     ELSE o2

\* "Skip repositories with no commits"
SkipEmpty(i, v, sp, o, repo) ==
  LET o2 == [o EXCEPT !.skippedRepos = @ + 1]
  IN IF ~v THEN o2
     ELSE IF sp
          THEN [o2 EXCEPT !.reports = Append(@, Event("warn", repo, <<"No commits found">>, 0))]
     ELSE IF i = "js" THEN CatchListing(i, v, sp, o2, repo, TypeErrorMsg("warn"))
     ELSE o2

\* AcceptCommits putting the new dataset in front of the others.
AcceptCommits_Prepend(i, v, sp, o, repo, commits) ==
  IF Len(commits) = 0 THEN SkipEmpty(i, v, sp, o, repo)
  ELSE LET grouped == groupByDate(i, commits)
       IN [o EXCEPT
             !.datasets = <<[label |-> repo, data |-> grouped.data,
                             labels |-> grouped.labels]>> \o @,
             !.totalCommits = @ + Len(commits),
             !.reports = IF v /\ sp
                         THEN Append(@, Event("info", repo, <<"commits">>, Len(commits)))
                         ELSE @]

\* AcceptCommits adding the number of days instead of the number of commits.
AcceptCommits_CountDays(i, v, sp, o, repo, commits) ==
  IF Len(commits) = 0 THEN SkipEmpty(i, v, sp, o, repo)
  ELSE LET grouped == groupByDate(i, commits)
       IN [o EXCEPT
             !.datasets = Append(@, [label |-> repo, data |-> grouped.data,
                                     labels |-> grouped.labels]),
             !.totalCommits = @ + Len(grouped.labels),
             !.reports = IF v /\ sp
                         THEN Append(@, Event("info", repo, <<"commits">>, Len(commits)))
                         ELSE @]

\* The body of the repository loop after fetchAllCommits returned commits.
AcceptCommits(i, v, sp, o, repo, commits) ==
  IF Len(commits) = 0 THEN SkipEmpty(i, v, sp, o, repo)
  ELSE LET grouped == groupByDate(i, commits)
       IN IF Len(grouped.data) > 0
          THEN LET o2 == [o EXCEPT
                            !.datasets = Append(@, [label |-> repo, data |-> grouped.data,
                                                    labels |-> grouped.labels]),
                            !.totalCommits = @ + Len(commits)]
               IN IF ~v THEN o2
                  ELSE IF sp
                       THEN [o2 EXCEPT !.reports =
                               Append(@, Event("info", repo, <<"commits">>, Len(commits)))]
                  ELSE IF i = "js" THEN CatchListing(i, v, sp, o2, repo, TypeErrorMsg("info"))
                  ELSE o2
          ELSE o

\* NoDataMessage with one text for both cases.
NoDataMessage_OneText(errs) ==
  <<"No data to generate chart. All repositories failed or are empty.">>

\* The message of the Error thrown when no repository yielded a dataset.
NoDataMessage(errs) ==
  IF Len(errs) > 0
  THEN <<"No data to generate chart. All repositories failed or are empty.">>
  ELSE <<"No repositories with commits found">>

\* The reports that close a successful run; the TypeScript source first
\* reports the file generateChart returned.
Summary(i, v, sp, t, ds, total, skipped) ==
  IF v /\ sp
  THEN (IF i = "ts"
        THEN <<Event("info", "", <<"Chart saved to: ">> \o ChartFile(t), 0)>>
        ELSE <<>>)
       \o <<Event("info", "", <<"Total commits analyzed">>, total),
         Event("info", "", <<"Repositories included">>, Len(ds))>>
       \o (IF skipped > 0
           THEN <<Event("info", "", <<"Skipped repositories">>, skipped)>>
           ELSE <<>>)
  ELSE <<>>

\* Discover with a catch block that swallows the error.
Discover_Swallow(i, src, v, sp, p, resp) ==
  LET r == FetchRepos(p, src, resp)
  IN IF r.ok /\ Len(r.value) > 0 THEN Ok(r.value) ELSE Ok(<<>>)

\* The outcome of repository discovery inside generateTimeline.
Discover(i, src, v, sp, p, resp) ==
  LET r == FetchRepos(p, src, resp)
      wrap(m) == Err(<<"Failed to fetch repositories: ">> \o m)
  IN IF ~r.ok THEN wrap(r.msg)
     ELSE IF Len(r.value) = 0
     THEN wrap(<<"No repositories found for user '", username, "' on ", p>>)
     ELSE IF v /\ ~sp /\ i = "js" THEN wrap(TypeErrorMsg("info"))
     ELSE Ok(r.value)

CurrentRepo == reposToProcess[processedRepos]

Current == Accumulators(datasets, totalCommits, skippedRepos, errors, reports)

\* Store the accumulators and go on: out of the run if an Error left the
\* loop, to the next repository, or past the loop.
StoreAt(o, processed) ==
  /\ datasets' = o.datasets
  /\ totalCommits' = o.totalCommits
  /\ skippedRepos' = o.skippedRepos
  /\ errors' = o.errors
  /\ reports' = o.reports
  /\ failure' = o.thrown
  /\ pc' = IF o.thrown # <<>> THEN "Failed"
           ELSE IF processed < Len(reposToProcess) THEN "Processing"
           ELSE "Aggregating"

Store(o) == StoreAt(o, processedRepos)

TypeOK ==
  /\ impl \in Impls /\ platform \in PlatformInputs
  /\ verbose \in BOOLEAN /\ spinner \in BOOLEAN /\ includeMerges \in BOOLEAN
  /\ chartType \in ChartTypes
  /\ revision \in Revisions
  /\ pc \in {"Init", "Resolving", "Processing", "Listing", "Aggregating", "Charting",
            "Done", "Failed"}
  /\ totalCommits \in Nat /\ processedRepos \in Nat /\ skippedRepos \in Nat

InitRun ==
  /\ pc = "Init"
  /\ reposToProcess = <<>>
  /\ datasets = <<>>
  /\ totalCommits = 0
  /\ processedRepos = 0
  /\ skippedRepos = 0
  /\ errors = <<>>
  /\ failure = <<>>
  /\ history = <<>>
  /\ walk = WalkInit
  /\ calls = <<>>
  /\ reports = <<>>
  /\ chart = <<>>
  /\ answer = <<>>
  /\ returned = <<>>
  /\ outcomes = <<>>

\* Runs started by the command line, which always attaches a spinner, with
\* the chart type the menu offers first and the options default to.
Init ==
  /\ impl \in Impls
  /\ platform \in PlatformInputs
  /\ username = User
  /\ repos \in SeqsUpTo(RepoNames, MaxRepos)
  /\ verbose \in BOOLEAN
  /\ spinner = TRUE
  /\ includeMerges \in BOOLEAN
  /\ chartType = "line"
  /\ revision \in RunRevisions(impl, platform)
  /\ InitRun
  /\ given = <<>>
  /\ buckets = <<>>
  /\ offered = <<>>
  /\ listed = <<>>
  /\ stats = <<>>
  /\ allDates = <<>>

\* NeedsDiscovery that discovers even when a list was given.
NeedsDiscovery_Always(rs) == TRUE

\* "if (reposToProcess.length === 0)": no explicit list, so discover.
NeedsDiscovery(rs) == Len(rs) = 0

\* providers[platform]: one of the four provider classes, undefined, or
\* what the object literal inherits under that name.
ProviderClass(p) ==
  IF p \in Platforms THEN "provider"
  ELSE IF p \in InheritedConstructors THEN "Object"
  ELSE IF p \in InheritedMethods THEN "method"
  ELSE "undefined"

\* provider.fetchRepos() / provider.fetchRepositories(username)
DiscoveryMethod(i) == IF i = "js" THEN "fetchRepos" ELSE "fetchRepositories"

\* provider.fetchAllCommits(repo, config) / provider.fetchCommits(username, repo, spinner)
ListingMethod(i) == IF i = "js" THEN "fetchAllCommits" ELSE "fetchCommits"

\* Provider selection, and the choice between the explicit list and discovery.
Begin ==
  /\ pc = "Init"
  /\ IF ProviderClass(platform) = "undefined"
     THEN /\ pc' = "Failed"
          /\ failure' = <<"Unsupported platform: ", platform>>
          /\ UNCHANGED <<reposToProcess, calls>>
     ELSE IF ProviderClass(platform) = "method"
     THEN /\ pc' = "Failed"
          /\ failure' = <<"ProviderClass is not a constructor">>
          /\ UNCHANGED <<reposToProcess, calls>>
     ELSE IF NeedsDiscovery(repos) /\ ProviderClass(platform) = "Object"
     THEN /\ pc' = "Failed"
          /\ failure' = <<"Failed to fetch repositories: ">>
                           \o NotAFunction(DiscoveryMethod(impl))
          /\ UNCHANGED <<reposToProcess, calls>>
     ELSE IF NeedsDiscovery(repos)
     THEN /\ pc' = "Resolving"
          /\ calls' = Append(calls, [op |-> "fetchRepos", repo |-> ""])
          /\ UNCHANGED <<reposToProcess, failure>>
     ELSE /\ pc' = "Processing"
          /\ reposToProcess' = repos
          /\ UNCHANGED <<calls, failure>>
  /\ UNCHANGED <<inputs, datasets, totalCommits, processedRepos, skippedRepos,
                 errors, history, walk, reports, chart, answer, returned, outcomes>>
  /\ UNCHANGED <<bucketing, discovering, reporting>>

\* The platform answers the discovery.
Resolve ==
  /\ pc = "Resolving"
  /\ \E resp \in RepoResponses(platform) :
       LET src == ProviderSource(impl, revision)
           d == Discover(impl, src, verbose, spinner, platform, resp)
           r == FetchRepos(platform, src, resp)
       IN /\ answer' = <<[status |-> resp.status, userStatus |-> resp.userStatus,
                          userFound |-> resp.userFound]>>
          /\ returned' = IF r.ok THEN r.value ELSE <<>>
          /\ reposToProcess' = IF r.ok THEN r.value ELSE reposToProcess
          /\ pc' = IF d.ok THEN "Processing" ELSE "Failed"
          /\ failure' = IF d.ok THEN failure ELSE d.msg
          /\ reports' = IF d.ok /\ verbose /\ spinner
                        THEN Append(reports, Event("info", "", <<"Found repositories">>,
                                                   Len(d.value)))
                        ELSE reports
  /\ UNCHANGED <<inputs, datasets, totalCommits, processedRepos, skippedRepos,
                 errors, history, walk, calls, chart, outcomes>>
  /\ UNCHANGED <<bucketing, discovering, reporting>>

\* How a commit listing ended: it threw msg ("failed"), or returned n commits
\* ("empty" when n is 0, "series" otherwise); status and items are the
\* status and the number of items of the last page response, late tells that
\* this response was a non-ok one that arrived after earlier pages had been
\* fetched.
Outcome(repo, s, resp, w) ==
  [repo |-> repo,
   kind |-> IF s.kind = "throw" THEN "failed"
            ELSE IF Len(s.commits) = 0 THEN "empty" ELSE "series",
   n    |-> IF s.kind = "throw" THEN 0 ELSE Len(s.commits),
   msg  |-> IF s.kind = "throw" THEN s.msg ELSE <<>>,
   status |-> resp.status,
   items |-> Len(resp.items),
   late |-> resp.status # 200 /\ w.requests > 1]

\* How a listing ended whose call threw before any request was made: no
\* response, so no status (0) and no items.
NoListing(repo, msg) ==
  [repo |-> repo, kind |-> "failed", n |-> 0, msg |-> msg, status |-> 0,
   items |-> 0, late |-> FALSE]

\* StartListing that does not wait for the listing in progress.
StartListing_Overlapping ==
  /\ pc \in {"Processing", "Listing"}
  /\ processedRepos < Len(reposToProcess)
  /\ processedRepos' = processedRepos + 1
  /\ IF ProviderClass(platform) = "provider"
     THEN /\ calls' = Append(calls, [op |-> "fetchAllCommits",
                                     repo |-> reposToProcess[processedRepos + 1]])
          /\ history' \in Histories
          /\ walk' = WalkInit
          /\ pc' = "Listing"
          /\ UNCHANGED <<datasets, totalCommits, skippedRepos, errors, failure,
                         reports, outcomes>>
     ELSE LET repo == reposToProcess[processedRepos + 1]
              msg == NotAFunction(ListingMethod(impl))
          IN /\ outcomes' = Append(outcomes, NoListing(repo, msg))
             /\ StoreAt(CatchListing(impl, verbose, spinner, Current, repo, msg),
                        processedRepos + 1)
             /\ UNCHANGED <<calls, history, walk>>
  /\ UNCHANGED <<inputs, reposToProcess, chart, answer, returned>>
  /\ UNCHANGED <<bucketing, discovering, reporting>>

\* Top of the loop body: the commit listing of the next repository is
\* requested; the platform holds some history for it. On an object that is
\* no provider the call throws at once and the catch block runs.
StartListing ==
  /\ pc = "Processing"
  /\ processedRepos < Len(reposToProcess)
  /\ processedRepos' = processedRepos + 1
  /\ IF ProviderClass(platform) = "provider"
     THEN /\ calls' = Append(calls, [op |-> "fetchAllCommits",
                                     repo |-> reposToProcess[processedRepos + 1]])
          /\ history' \in Histories
          /\ walk' = WalkInit
          /\ pc' = "Listing"
          /\ UNCHANGED <<datasets, totalCommits, skippedRepos, errors, failure,
                         reports, outcomes>>
     ELSE LET repo == reposToProcess[processedRepos + 1]
              msg == NotAFunction(ListingMethod(impl))
          IN /\ outcomes' = Append(outcomes, NoListing(repo, msg))
             /\ StoreAt(CatchListing(impl, verbose, spinner, Current, repo, msg),
                        processedRepos + 1)
             /\ UNCHANGED <<calls, history, walk>>
  /\ UNCHANGED <<inputs, reposToProcess, chart, answer, returned>>
  /\ UNCHANGED <<bucketing, discovering, reporting>>

\* A page response arrives: the walk goes on with the next page request, or
\* the listing returns or throws and the loop body runs to its end.
PageArrives ==
  /\ pc = "Listing"
  /\ \E resp \in PageResponses(platform, history, walk) :
       LET s == WalkStep(platform, ProviderSource(impl, revision), walk, resp,
                         includeMerges)
       IN IF s.kind = "continue"
          THEN /\ walk' = s.walk
               /\ UNCHANGED <<pc, datasets, totalCommits, skippedRepos, errors,
                              failure, reports, history, outcomes>>
          ELSE /\ walk' = WalkInit
               /\ history' = <<>>
               /\ outcomes' = Append(outcomes, Outcome(CurrentRepo, s, resp, walk))
               /\ Store(IF s.kind = "return"
                        THEN AcceptCommits(impl, verbose, spinner, Current,
                                           CurrentRepo, s.commits)
                        ELSE CatchListing(impl, verbose, spinner, Current,
                                          CurrentRepo, s.msg))
  /\ UNCHANGED <<inputs, reposToProcess, processedRepos, calls, chart, answer, returned>>
  /\ UNCHANGED <<bucketing, discovering, reporting>>

-----------------------------------------------------------------------------
(* The report on the datasets: calculateStats and the label merge of       *)
(* generateLineChart. Labels are calendar days, numbered; the order of the *)
(* numbers is the order of the YYYY-MM-DD strings and of their Dates.      *)
(* null is the empty tuple, and a date d that may be null is <<d>>.        *)

Null == <<>>

\* datasets.flatMap((d) => d.labels || []) / allDates.push(...dataset.labels)
RECURSIVE FlatLabels(_)
FlatLabels(ds) ==
  IF ds = <<>> THEN <<>> ELSE Head(ds).labels \o FlatLabels(Tail(ds))

\* Unique that keeps every occurrence.
Unique_KeepAll(q) == q

\* [...new Set(q)]: the first occurrence of each value, in order
RECURSIVE Unique(_)
Unique(q) ==
  IF q = <<>> THEN <<>>
  ELSE LET rest == Unique(SubSeq(q, 1, Len(q) - 1))
       IN IF \E k \in DOMAIN rest : rest[k] = q[Len(q)] THEN rest
          ELSE Append(rest, q[Len(q)])

RECURSIVE InsertLabel(_, _)
InsertLabel(sorted, d) ==
  IF sorted = <<>> THEN <<d>>
  ELSE IF d < Head(sorted) THEN <<d>> \o sorted
       ELSE <<Head(sorted)>> \o InsertLabel(Tail(sorted), d)

\* .sort() of date strings / .sort((a, b) => new Date(a) - new Date(b))
RECURSIVE SortLabels(_)
SortLabels(q) ==
  IF q = <<>> THEN <<>>
  ELSE InsertLabel(SortLabels(SubSeq(q, 1, Len(q) - 1)), q[Len(q)])

\* const allDates = [...new Set(datasets.flatMap(...))].sort(...)
MergeLabels(ds) == SortLabels(Unique(FlatLabels(ds)))

\* InsertByCommits that puts an entry before the entries it ties with.
RECURSIVE InsertByCommits_BeforeEqual(_, _)
InsertByCommits_BeforeEqual(sorted, e) ==
  IF sorted = <<>> THEN <<e>>
  ELSE IF e.commits >= Head(sorted).commits THEN <<e>> \o sorted
       ELSE <<Head(sorted)>> \o InsertByCommits_BeforeEqual(Tail(sorted), e)

RECURSIVE InsertByCommits(_, _)
InsertByCommits(sorted, e) ==
  IF sorted = <<>> THEN <<e>>
  ELSE IF e.commits > Head(sorted).commits THEN <<e>> \o sorted
       ELSE <<Head(sorted)>> \o InsertByCommits(Tail(sorted), e)

\* stats.topRepos.sort((a, b) => b.commits - a.commits): a stable sort
RECURSIVE SortByCommits(_)
SortByCommits(entries) ==
  IF entries = <<>> THEN <<>>
  ELSE InsertByCommits(SortByCommits(SubSeq(entries, 1, Len(entries) - 1)),
                       entries[Len(entries)])

\* Round that drops the fraction.
Round_Down(a, b) == a \div b

\* Math.round(a / b) for a >= 0, b > 0: halves go up
Round(a, b) == (2 * a + b) \div (2 * b)

\* DateRange that takes the first and the last label as they come.
DateRange_Unsorted(dates) ==
  IF Len(dates) > 0
  THEN [start |-> <<dates[1]>>, end |-> <<dates[Len(dates)]>>,
        days |-> dates[Len(dates)] - dates[1]]
  ELSE [start |-> Null, end |-> Null, days |-> 0]

\* "if (allDates.length > 0) { allDates = [...new Set(allDates)].sort(); ... }"
\* days: Math.ceil of the milliseconds between the two dates over 86400000
DateRange(dates) ==
  IF Len(dates) > 0
  THEN LET sorted == SortLabels(Unique(dates))
       IN [start |-> <<sorted[1]>>, end |-> <<sorted[Len(sorted)]>>,
           days |-> sorted[Len(sorted)] - sorted[1]]
  ELSE [start |-> Null, end |-> Null, days |-> 0]

\* stats.totalCommits += commits, over the datasets
RECURSIVE SumCommits(_)
SumCommits(entries) ==
  IF entries = <<>> THEN 0 ELSE Head(entries).commits + SumCommits(Tail(entries))

RECURSIVE BitLength(_)
BitLength(n) == IF n = 0 THEN 0 ELSE 1 + BitLength(n \div 2)

\* The binary digits of r / b after those taken so far, up to the 53 a
\* double keeps: TRUE iff the double nearest to the quotient (ties to the
\* even digit) is not below it.
RECURSIVE NotRoundedDown(_, _, _, _)
NotRoundedDown(r, b, taken, last) ==
  IF r = 0 THEN TRUE
  ELSE IF taken = 53 THEN 2 * r > b \/ (2 * r = b /\ last = 1)
  ELSE LET bit == IF 2 * r >= b THEN 1 ELSE 0
       IN NotRoundedDown(2 * r - bit * b, b,
                         IF taken > 0 \/ bit = 1 THEN taken + 1 ELSE 0, bit)

\* The double a / b is not below the quotient of a by b.
DoubleNotBelow(a, b) == NotRoundedDown(a % b, b, BitLength(a \div b), (a \div b) % 2)

\* parseFloat((a / b).toFixed(2)), in hundredths, for a >= 0 and b > 0:
\* the hundredth nearest to the double a / b, the larger one of two.
ToFixed2(a, b) ==
  LET below == (100 * a) \div b
      rest == (100 * a) % b
  IN IF 2 * rest > b THEN below + 1
     ELSE IF 2 * rest < b THEN below
     ELSE IF DoubleNotBelow(a, b) THEN below + 1
     ELSE below

\* averageCommitsPerDay is in hundredths
calculateStats(ds) ==
  IF Len(ds) = 0 THEN Null
  ELSE LET entries == [k \in DOMAIN ds |-> [name |-> ds[k].label,
                                            commits |-> SumSeq(ds[k].data)]]
           total == SumCommits(entries)
           ranked == SortByCommits(entries)
           range == DateRange(FlatLabels(ds))
       IN [totalCommits |-> total,
           repositoriesAnalyzed |-> Len(ds),
           dateRange |-> range,
           topRepos |-> SubSeq(ranked, 1, IF Len(ranked) < TopShown THEN Len(ranked)
                                          ELSE TopShown),
           averageCommitsPerRepo |-> Round(total, Len(ds)),
           averageCommitsPerDay |-> IF range.days > 0 THEN ToFixed2(total, range.days)
                                    ELSE 0]

-----------------------------------------------------------------------------
(* The end of the run.                                                     *)

\* HasNoData that lets a run in which every repository was empty through.
HasNoData_OnlyAfterErrors(ds, errs) == Len(ds) = 0 /\ Len(errs) > 0

\* "if (datasets.length === 0)"
HasNoData(ds, errs) == Len(ds) = 0

\* Aggregate that starts over with a new discovery when there is no data.
Aggregate_Retry ==
  /\ pc = "Aggregating"
  /\ IF HasNoData(datasets, errors)
     THEN /\ pc' = "Resolving"
          /\ UNCHANGED <<failure, chart, allDates>>
     ELSE /\ pc' = "Charting"
          /\ chart' = Append(chart, [datasets |-> datasets, totalCommits |-> totalCommits,
                                     chartType |-> chartType])
          /\ allDates' = IF impl = "js" /\ MergesLabels(impl, chartType)
                         THEN <<MergeLabels(datasets)>>
                         ELSE allDates
          /\ UNCHANGED failure
  /\ UNCHANGED <<inputs, reposToProcess, datasets, totalCommits, processedRepos,
                 skippedRepos, errors, history, walk, calls, reports, answer,
                 returned, outcomes, stats>>
  /\ UNCHANGED <<bucketing, discovering>>

\* After the loop: NoData, or the datasets go to generateChart and the run
\* awaits it. The JavaScript chart module reaches the label merge, when the
\* chart type has one, before it first yields; the TypeScript one first
\* awaits ensureCanvasWorks and the import of the canvas module.
Aggregate ==
  /\ pc = "Aggregating"
  /\ IF HasNoData(datasets, errors)
     THEN /\ pc' = "Failed"
          /\ failure' = NoDataMessage(errors)
          /\ UNCHANGED <<chart, allDates>>
     ELSE /\ pc' = "Charting"
          /\ chart' = Append(chart, [datasets |-> datasets, totalCommits |-> totalCommits,
                                     chartType |-> chartType])
          /\ allDates' = IF impl = "js" /\ MergesLabels(impl, chartType)
                         THEN <<MergeLabels(datasets)>>
                         ELSE allDates
          /\ UNCHANGED failure
  /\ UNCHANGED <<inputs, reposToProcess, datasets, totalCommits, processedRepos,
                 skippedRepos, errors, history, walk, calls, reports, answer,
                 returned, outcomes, stats>>
  /\ UNCHANGED <<bucketing, discovering>>

\* The TypeScript generateLineChart (or generateMixedChart, which starts the
\* same way) resumes after its awaits and merges the labels.
LineChartResumes ==
  /\ pc = "Charting"
  /\ impl = "ts"
  /\ MergesLabels(impl, chartType)
  /\ allDates = <<>>
  /\ IF MergeLabels(datasets) = <<>>
     THEN /\ pc' = "Failed"
          /\ failure' = NoLabelsMessage(chartType)
          /\ UNCHANGED allDates
     ELSE /\ allDates' = <<MergeLabels(datasets)>>
          /\ UNCHANGED <<pc, failure>>
  /\ UNCHANGED <<inputs, reposToProcess, datasets, totalCommits, processedRepos,
                 skippedRepos, errors, history, walk, calls, reports,
                 chart, answer, returned, outcomes, stats>>
  /\ UNCHANGED <<bucketing, discovering>>

\* The TypeScript generateChart starts by awaiting ensureCanvasWorks, which
\* rejects when the canvas module cannot be found, rebuilt or imported;
\* generateTimeline does not catch it, so the run is rejected with it.
ChartFails ==
  /\ pc = "Charting"
  /\ impl = "ts"
  /\ allDates = <<>>
  /\ pc' = "Failed"
  /\ failure' \in CanvasErrors
  /\ UNCHANGED <<inputs, reposToProcess, datasets, totalCommits, processedRepos,
                 skippedRepos, errors, history, walk, calls, reports,
                 chart, answer, returned, outcomes>>
  /\ UNCHANGED <<bucketing, discovering, reporting>>

\* generateChart has returned: the closing reports and, with them, the
\* statistics of the datasets.
ChartSaved ==
  /\ pc = "Charting"
  /\ MergesLabels(impl, chartType) => allDates # <<>>
  /\ pc' = "Done"
  /\ reports' = reports \o Summary(impl, verbose, spinner, chartType, datasets,
                                   totalCommits, skippedRepos)
  /\ stats' = IF verbose /\ spinner THEN <<calculateStats(datasets)>> ELSE stats
  /\ UNCHANGED <<inputs, reposToProcess, datasets, totalCommits, processedRepos,
                 skippedRepos, errors, failure, history, walk, calls, chart, answer,
                 returned, outcomes, allDates>>
  /\ UNCHANGED <<bucketing, discovering>>

Next ==
  Begin \/ Resolve \/ StartListing \/ PageArrives \/ Aggregate \/ LineChartResumes
    \/ ChartFails \/ ChartSaved

Spec == Init /\ [][Next]_vars

\* Runs started by a caller that passes no spinner ("spinner = null", the
\* default of the last parameter) and no chart type.
InitHeadless ==
  /\ impl \in Impls
  /\ platform \in PlatformInputs
  /\ username = User
  /\ repos \in SeqsUpTo(RepoNames, MaxRepos)
  /\ verbose \in BOOLEAN
  /\ spinner = FALSE
  /\ includeMerges \in BOOLEAN
  /\ chartType = "line"
  /\ revision \in RunRevisions(impl, platform)
  /\ InitRun
  /\ given = <<>>
  /\ buckets = <<>>
  /\ offered = <<>>
  /\ listed = <<>>
  /\ stats = <<>>
  /\ allDates = <<>>

SpecHeadless == InitHeadless /\ [][Next]_vars

\* Runs of the command line's quick mode (verbose, merges included, every
\* repository of the account), whose username option may be the empty string
\* and whose type option may name any chart type.
InitIdentity ==
  /\ impl \in Impls
  /\ platform \in PlatformInputs
  /\ username \in {"", User}
  /\ repos = <<>>
  /\ verbose = TRUE
  /\ spinner = TRUE
  /\ includeMerges = TRUE
  /\ chartType \in ChartTypes
  /\ revision \in RunRevisions(impl, platform)
  /\ InitRun
  /\ given = <<>>
  /\ buckets = <<>>
  /\ offered = <<>>
  /\ listed = <<>>
  /\ stats = <<>>
  /\ allDates = <<>>

SpecIdentity == InitIdentity /\ [][Next]_vars

-----------------------------------------------------------------------------
(* groupByDate on its own: applied once to a commit list a provider built. *)

\* Days to add to the day written in a commit date to get its UTC day.
Shifts == {-1, 0, 1}

\* Platform commits with every written day and every zone offset.
DatedCommits == {Commit(d, z, FALSE) : d \in 1..MaxDay, z \in Shifts}

InitBucketing ==
  /\ impl \in Impls
  /\ platform = "gitlab"
  /\ username = User
  /\ repos = <<>>
  /\ verbose = TRUE
  /\ spinner = TRUE
  /\ includeMerges = TRUE
  /\ chartType = "line"
  /\ revision \in RunRevisions(impl, platform)
  /\ InitRun
  /\ given \in {MapCommits(platform, ProviderSource(impl, revision), h) :
                  h \in SeqsUpTo(DatedCommits, MaxCommits)}
  /\ buckets = <<>>
  /\ offered = <<>>
  /\ listed = <<>>
  /\ stats = <<>>
  /\ allDates = <<>>

\* const grouped = groupByDate(commits)
Bucket ==
  /\ buckets = <<>>
  /\ buckets' = <<groupByDate(impl, given)>>
  /\ UNCHANGED <<inputs, pc, reposToProcess, datasets, totalCommits, processedRepos,
                 skippedRepos, errors, failure, history, walk, calls, reports,
                 chart, answer, returned, outcomes, given>>
  /\ UNCHANGED <<discovering, reporting>>

SpecBucketing == InitBucketing /\ [][Bucket]_vars

-----------------------------------------------------------------------------
(* fetchRepos on its own: applied once to a response of the platform.      *)

InitDiscovery ==
  /\ impl \in Impls
  /\ platform \in Platforms
  /\ username = User
  /\ repos = <<>>
  /\ verbose = TRUE
  /\ spinner = TRUE
  /\ includeMerges = TRUE
  /\ chartType = "line"
  /\ revision \in DiscoveryRevisions(impl, platform)
  /\ InitRun
  /\ given = <<>>
  /\ buckets = <<>>
  /\ offered \in {<<resp>> : resp \in RepoResponses(platform)}
  /\ listed = <<>>
  /\ stats = <<>>
  /\ allDates = <<>>

\* reposToProcess = await provider.fetchRepos()
ListRepos ==
  /\ listed = <<>>
  /\ listed' = <<FetchRepos(platform, ProviderSource(impl, revision), offered[1])>>
  /\ UNCHANGED <<inputs, pc, reposToProcess, datasets, totalCommits, processedRepos,
                 skippedRepos, errors, failure, history, walk, calls, reports,
                 chart, answer, returned, outcomes, offered>>
  /\ UNCHANGED <<bucketing, reporting>>

SpecDiscovery == InitDiscovery /\ [][ListRepos]_vars

-----------------------------------------------------------------------------
(* calculateStats and the label merge on their own, applied to datasets    *)
(* drawn from a few shapes.                                                *)

SeriesNames == <<"a", "b", "c", "d", "e", "f", "g">>

\* What a dataset may hold: commit counts per day under the days as labels.
SeriesShapes ==
  { [data |-> <<10>>, labels |-> <<1>>],
    [data |-> <<29, 1>>, labels |-> <<1, 3>>],
    [data |-> <<1>>, labels |-> <<2>>],
    [data |-> <<>>, labels |-> <<>>] }

\* The datasets made of the given shapes, named in order.
DatasetsOf(shapes) ==
  [k \in DOMAIN shapes |-> [label |-> SeriesNames[k], data |-> shapes[k].data,
                            labels |-> shapes[k].labels]]

InitReport ==
  /\ impl \in Impls
  /\ platform = "github"
  /\ username = User
  /\ repos = <<>>
  /\ verbose = TRUE
  /\ spinner = TRUE
  /\ includeMerges = TRUE
  /\ chartType = "line"
  /\ revision = "main"
  /\ pc = "Aggregating"
  /\ reposToProcess = <<>>
  /\ datasets \in {DatasetsOf(q) : q \in SeqsUpTo(SeriesShapes, MaxSeries)}
  /\ totalCommits = SumCommits([k \in DOMAIN datasets |-> [commits |-> SumSeq(datasets[k].data)]])
  /\ processedRepos = 0
  /\ skippedRepos = 0
  /\ errors = <<>>
  /\ failure = <<>>
  /\ history = <<>>
  /\ walk = WalkInit
  /\ calls = <<>>
  /\ reports = <<>>
  /\ chart = <<>>
  /\ answer = <<>>
  /\ returned = <<>>
  /\ outcomes = <<>>
  /\ given = <<>>
  /\ buckets = <<>>
  /\ offered = <<>>
  /\ listed = <<>>
  /\ stats = <<>>
  /\ allDates = <<>>

\* const stats = calculateStats(datasets)
ShowStats ==
  /\ stats = <<>>
  /\ stats' = <<calculateStats(datasets)>>
  /\ UNCHANGED <<inputs, pc, reposToProcess, datasets, totalCommits, processedRepos,
                 skippedRepos, errors, failure, history, walk, calls, reports,
                 chart, answer, returned, outcomes, allDates>>
  /\ UNCHANGED <<bucketing, discovering>>

\* The head of generateLineChart: the labels of the common axis; the
\* TypeScript source throws when there are none.
LineChart ==
  /\ allDates = <<>>
  /\ failure = <<>>
  /\ IF impl = "ts" /\ MergeLabels(datasets) = <<>>
     THEN /\ failure' = NoLabelsMessage(chartType)
          /\ UNCHANGED allDates
     ELSE /\ allDates' = <<MergeLabels(datasets)>>
          /\ UNCHANGED failure
  /\ UNCHANGED <<inputs, pc, reposToProcess, datasets, totalCommits, processedRepos,
                 skippedRepos, errors, history, walk, calls, reports,
                 chart, answer, returned, outcomes, stats>>
  /\ UNCHANGED <<bucketing, discovering>>

NextReport == ShowStats \/ LineChart

SpecReport == InitReport /\ [][NextReport]_vars

-----------------------------------------------------------------------------
(* Properties *)

Names(cs) == [k \in DOMAIN cs |-> cs[k].repo]

\* The repositories whose commit listing was requested, in request order.
ListedRepos == Names(SelectSeq(calls, LAMBDA c : c.op = "fetchAllCommits"))

DiscoveryCalls == SelectSeq(calls, LAMBDA c : c.op = "fetchRepos")

\* The repositories whose listing ended the given way, in processing order.
ReposEnding(kind) == Names(SelectSeq(outcomes, LAMBDA x : x.kind = kind))

DatasetLabels == [k \in DOMAIN datasets |-> datasets[k].label]

\* The loop is over: every repository of a non-empty list has been handled.
LoopOver ==
  /\ pc \in {"Aggregating", "Charting", "Done", "Failed"}
  /\ Len(reposToProcess) > 0
  /\ Len(outcomes) = Len(reposToProcess)

RECURSIVE SumOfData(_)
SumOfData(ds) == IF ds = <<>> THEN 0 ELSE SumSeq(Head(ds).data) + SumOfData(Tail(ds))

\* C1: a failed commit listing never aborts the run. Once a listing has
\* failed the run is not rejected before the loop is over, a next listing is
\* requested while repositories remain, and when the run has ended the
\* listing of every repository of the list has been requested, in order
\* (attempted, and nothing requested, when the platform names no provider).
C1_FailureIsolation ==
  ReposEnding("failed") # <<>> =>
    /\ pc = "Failed" => LoopOver
    /\ pc = "Processing" => processedRepos < Len(reposToProcess)
    /\ pc \in {"Aggregating", "Charting", "Done", "Failed"} =>
         /\ Names(outcomes) = reposToProcess
         /\ ListedRepos = IF platform \in Platforms THEN reposToProcess ELSE <<>>

C1_Witness ==
  /\ pc = "Done"
  /\ Len(reposToProcess) = 2
  /\ outcomes[1].kind = "failed"
  /\ outcomes[2].kind = "series"
  /\ ListedRepos = reposToProcess

\* C2: whatever the provider variant and however long the history the
\* platform holds, a commit listing issues at most PageCap page requests.
C2_PageCap == walk.requests <= PageCap

C2_Witness ==
  /\ pc = "Listing"
  /\ platform = "bitbucket"
  /\ Len(history) > PageCap
  /\ walk.requests = PageCap

\* The platform's answer says that the identity does not exist: a 404 from
\* GitHub, Bitbucket and SourceHut, an empty user list from GitLab.
IdentityMissing ==
  /\ answer # <<>>
  /\ IF platform = "gitlab"
     THEN answer[1].userStatus = 200 /\ ~answer[1].userFound
     ELSE answer[1].status = 404

DiscoveryFailed ==
  /\ answer # <<>>
  /\ \/ answer[1].status # 200
     \/ answer[1].userStatus # 200
     \/ ~answer[1].userFound

\* C3: when discovery fails the run is rejected at once, with the
\* provider's failure as the cause (a "not found" failure when the identity
\* does not exist), and no commit listing is requested.
C3_DiscoveryFatal ==
  DiscoveryFailed =>
    /\ pc = "Failed"
    /\ Head(failure) = "Failed to fetch repositories: "
    /\ Len(failure) > 1
    /\ IdentityMissing => Includes(failure, "not found")
    /\ ListedRepos = <<>>
    /\ outcomes = <<>>
    /\ chart = <<>>

C3_Witness ==
  /\ pc = "Failed"
  /\ platform = "github"
  /\ answer # <<>>
  /\ answer[1].status = 404
  /\ Includes(failure, "not found")
  /\ ListedRepos = <<>>

\* C4: the total handed over with the datasets is the sum of all their counts.
C4_TotalIsSumOfCounts ==
  /\ totalCommits = SumOfData(datasets)
  /\ \A k \in DOMAIN chart : chart[k].totalCommits = SumOfData(chart[k].datasets)

C4_Witness ==
  /\ pc = "Done"
  /\ Len(chart) = 1
  /\ Len(chart[1].datasets) = 2
  /\ chart[1].totalCommits > PageCap
  /\ \E k \in 1..2 : \E j \in DOMAIN chart[1].datasets[k].data :
       chart[1].datasets[k].data[j] > 1

\* Every record of a skipped repository the run keeps: the entries of errors
\* and the warnings given to the progress reporter.
SkipRecords ==
  {[repo |-> errors[k].repo, reason |-> errors[k].error] : k \in DOMAIN errors}
  \cup {[repo |-> reports[k].repo, reason |-> reports[k].text] :
          k \in {j \in DOMAIN reports : reports[j].level = "warn"}}

\* C5 as stated: every repository whose listing returned zero commits has a
\* skip record with the reason "No commits found" and produced no dataset.
C5_EmptyHasSkipRecord ==
  /\ \A k \in DOMAIN outcomes :
       outcomes[k].kind = "empty" =>
         [repo |-> outcomes[k].repo, reason |-> <<"No commits found">>] \in SkipRecords
  /\ DatasetLabels = ReposEnding("series")

FailedOutcomes == SelectSeq(outcomes, LAMBDA x : x.kind = "failed")

\* C6: every repository whose listing failed is recorded in errors with the
\* message of the failure, in processing order, and produced no dataset.
C6_FailedIsRecorded ==
  /\ errors = [k \in DOMAIN FailedOutcomes |->
                 [repo |-> FailedOutcomes[k].repo, error |-> FailedOutcomes[k].msg]]
  /\ \A k \in DOMAIN errors : errors[k].error # <<>>
  /\ Len(datasets) = Len(outcomes) - Len(ReposEnding("empty")) - Len(errors)

C6_Witness ==
  /\ pc = "Done"
  /\ Len(outcomes) = 2
  /\ outcomes[1].kind = "series"
  /\ outcomes[2].kind = "failed"
  /\ Len(errors) = 1
  /\ errors[1].repo = reposToProcess[2]
  /\ Includes(errors[1].error, "rate limit")
  /\ Len(datasets) = 1

NoDataTexts ==
  {<<"No data to generate chart. All repositories failed or are empty.">>,
   <<"No repositories with commits found">>}

\* C7: after the loop the run is rejected with a NoData message exactly when
\* no listing produced a series, and then generateChart is not called;
\* otherwise generateChart is called once, with the datasets and the total,
\* and the run is rejected only if generateChart rejects, with its Error.
\* generateChart is called in no other case.
C7_NoDataIffNoSeries ==
  /\ LoopOver /\ pc \in {"Charting", "Done", "Failed"} =>
       /\ (pc = "Failed" /\ failure \in NoDataTexts) <=> ReposEnding("series") = <<>>
       /\ ReposEnding("series") = <<>> => chart = <<>>
       /\ ReposEnding("series") # <<>> =>
            /\ chart = <<[datasets |-> datasets, totalCommits |-> totalCommits,
                          chartType |-> chartType]>>
            /\ Len(datasets) = Len(ReposEnding("series"))
            /\ IF pc = "Failed" THEN failure \in CanvasErrors ELSE failure = <<>>
  /\ chart # <<>> => LoopOver /\ pc \in {"Charting", "Done", "Failed"}

C7_Witness ==
  /\ pc = "Failed"
  /\ LoopOver
  /\ Len(outcomes) = 2
  /\ outcomes[1].kind = "empty"
  /\ outcomes[2].kind = "failed"
  /\ chart = <<>>

\* The run was rejected after the loop without a call of generateChart: a
\* NoData failure.
NoDataFailure == LoopOver /\ pc = "Failed" /\ chart = <<>>

\* C8: the NoData message tells the run in which every repository was empty
\* from the run in which at least one listing failed.
C8_NoDataMessageDistinguishes ==
  NoDataFailure =>
    /\ ReposEnding("failed") = <<>> =>
         failure = <<"No repositories with commits found">>
    /\ ReposEnding("failed") # <<>> =>
         failure = <<"No data to generate chart. All repositories failed or are empty.">>
    /\ ReposEnding("failed") # <<>> <=> errors # <<>>

C8_Witness ==
  /\ pc = "Failed"
  /\ LoopOver
  /\ Len(outcomes) = 2
  /\ ReposEnding("failed") = <<>>
  /\ failure = <<"No repositories with commits found">>

\* C9: the listings are requested in the order of the explicit list, or of
\* the list discovery returned, and the datasets keep that order.
C9_ProcessingOrder ==
  /\ reposToProcess # <<>> =>
       reposToProcess = IF repos # <<>> THEN repos ELSE returned
  /\ platform \in Platforms => ListedRepos = SubSeq(reposToProcess, 1, processedRepos)
  /\ Names(outcomes) = SubSeq(reposToProcess, 1, Len(outcomes))
  /\ DatasetLabels = ReposEnding("series")
  /\ \A k \in DOMAIN chart :
       [j \in DOMAIN chart[k].datasets |-> chart[k].datasets[j].label]
         = ReposEnding("series")

C9_Witness ==
  /\ pc = "Done"
  /\ repos = <<>>
  /\ returned = <<"b", "a">>
  /\ ListedRepos = <<"b", "a">>
  /\ DatasetLabels = <<"b", "a">>

\* C10: with an explicit list discovery is never called and exactly the
\* listed repositories are processed; without one discovery is called once,
\* before any commit listing.
C10_DiscoveryOnlyWithoutList ==
  /\ repos # <<>> =>
       /\ DiscoveryCalls = <<>>
       /\ answer = <<>>
       /\ ListedRepos = IF platform \in Platforms
                        THEN SubSeq(repos, 1, processedRepos) ELSE <<>>
       /\ Names(outcomes) = SubSeq(repos, 1, Len(outcomes))
       /\ pc \in {"Aggregating", "Charting", "Done"}
            \/ (pc = "Failed" /\ ProviderClass(platform) \in {"provider", "Object"})
            => Names(outcomes) = repos
  /\ repos = <<>> /\ pc # "Init" /\ platform \in Platforms =>
       /\ Len(DiscoveryCalls) = 1
       /\ calls[1].op = "fetchRepos"

C10_Witness ==
  /\ pc = "Done"
  /\ repos = <<"b", "a">>
  /\ DiscoveryCalls = <<>>
  /\ ListedRepos = repos

\* The states of a run, in their order: Init, ResolvingRepositories,
\* ProcessingRepository(i) (the loop head "Processing" and the listing in
\* progress "Listing"), Aggregating, and the two ends Done and Failed.
Phase(p) ==
  CASE p = "Init"        -> 0
    [] p = "Resolving"   -> 1
    [] p = "Processing"  -> 2
    [] p = "Listing"     -> 2
    [] p = "Aggregating" -> 3
    [] p = "Charting"    -> 3
    [] OTHER             -> 4

\* C11: every step of a run goes forward. The state never goes back to an
\* earlier one; the repository index advances by exactly one when a listing
\* starts and stays where it is otherwise; a listing is only in progress for
\* index i between 1 and the length of the list; and from Aggregating on no
\* provider call is made (no discovery, no listing, no page request).
C11_ForwardOnly ==
  [][ /\ Phase(pc') >= Phase(pc)
      /\ pc \in {"Done", "Failed"} => pc' = pc
      /\ processedRepos' =
           IF pc = "Processing" THEN processedRepos + 1 ELSE processedRepos
      /\ pc' = "Listing" => processedRepos' \in 1..Len(reposToProcess')
      /\ pc = "Processing" /\ platform \in Platforms => pc' = "Listing"
      /\ Phase(pc) >= 3 => /\ calls' = calls
                           /\ walk' = walk
                           /\ answer' = answer
                           /\ outcomes' = outcomes
    ]_vars

C11_Witness ==
  /\ pc = "Done"
  /\ answer # <<>>
  /\ repos = <<>>
  /\ processedRepos = 2
  /\ Len(calls) = 3
  /\ Len(outcomes) = 2

\* The message is the TypeError of a method call on the null spinner.
ReporterMissing(msg) == Includes(msg, TypeErrorMsg("")[1])

\* C12 as stated: a run without a progress reporter never fails because the
\* reporter is missing, and it keeps the books as a run with a reporter does:
\* the skip count is the number of empty and failed listings, errors holds
\* exactly the failed listings with their messages, and the datasets are
\* those of the listings that returned commits.
C12_HeadlessRunsAlike ==
  ~spinner =>
    /\ ~ReporterMissing(failure)
    /\ \A k \in DOMAIN errors : ~ReporterMissing(errors[k].error)
    /\ skippedRepos = Len(ReposEnding("empty")) + Len(ReposEnding("failed"))
    /\ errors = [k \in DOMAIN FailedOutcomes |->
                   [repo |-> FailedOutcomes[k].repo, error |-> FailedOutcomes[k].msg]]
    /\ DatasetLabels = ReposEnding("series")
    /\ reports = <<>>

Last(q) == q[Len(q)]

\* This step ends the commit listing in progress.
ListingEnds == pc = "Listing" /\ pc' # "Listing"

\* What a listing returns when it stops with these commits accumulated.
Accumulated(commits) ==
  Finish(ProviderSource(impl, revision), commits, includeMerges).commits

\* C13 as stated: in every provider variant a page without items ends the
\* walk. The walk goes on to a further page request only after a page that
\* brought items, and a listing that ends on an ok page without items
\* returns the commits accumulated from the earlier pages.
C13_EmptyPageEndsWalk ==
  [][ /\ pc = "Listing" /\ pc' = "Listing" =>
           Len(walk'.allCommits) > Len(walk.allCommits)
      /\ ListingEnds /\ Last(outcomes').status = 200 /\ Last(outcomes').items = 0 =>
           /\ Last(outcomes').kind # "failed"
           /\ Last(outcomes').n = Len(Accumulated(walk.allCommits))
    ]_vars

\* A page response that is a failure: a non-ok status, except the 409 of
\* the GitHub variant, which stands for an empty repository (see C16).
FailureResponse(x) ==
  x.status # 200 /\ ~(platform = "github" /\ x.status = 409)

\* C14: a listing whose page request got a failure response has failed, on
\* whichever page the response arrived: it returned no commits, its error is
\* the one the provider makes of that status, and that error is what the
\* orchestrator recorded for the repository.
C14_PageFailureFailsListing ==
  platform \in Platforms =>
  /\ \A k \in DOMAIN outcomes :
       FailureResponse(outcomes[k]) =>
         /\ outcomes[k].kind = "failed"
         /\ outcomes[k].n = 0
         /\ outcomes[k].msg = PageError(platform, ProviderSource(impl, revision), outcomes[k].status)
  /\ \A k \in DOMAIN FailedOutcomes :
       /\ FailureResponse(FailedOutcomes[k])
       /\ k \in DOMAIN errors
       /\ errors[k] = [repo |-> FailedOutcomes[k].repo,
                       error |-> PageError(platform, ProviderSource(impl, revision), FailedOutcomes[k].status)]

C14_Witness ==
  /\ platform = "gitlab"
  /\ outcomes # <<>>
  /\ Last(outcomes).late
  /\ Last(outcomes).status = 429
  /\ Last(outcomes).kind = "failed"
  /\ Includes(Last(errors).error, "rate limit")
  /\ datasets = <<>>

\* The commits of the first PageCap pages of the history being listed, as
\* the provider maps them.
CappedCommits ==
  MapCommits(platform, ProviderSource(impl, revision), SubSeq(history, 1, PageCap))

\* C15: when the platform has a non-empty page for every request of a
\* paginated listing and answers none with a failure, the listing ends with
\* request number PageCap and succeeds; what it returns are the commits of
\* those PageCap pages (less the merge commits when merges are excluded), and
\* the dataset of the repository is made of exactly them.
C15_CapReturnsPagesFetched ==
  [][ /\ ListingEnds
      /\ platform # "sourcehut"
      /\ Len(history) > PageCap
      /\ Last(outcomes').status = 200
      => /\ walk.requests = PageCap
         /\ Last(outcomes').kind = "series"
         /\ Last(outcomes').n = Len(Accumulated(CappedCommits))
         /\ includeMerges => Last(outcomes').n = PageCap
         /\ Len(datasets') = Len(datasets) + 1
         /\ LET grouped == groupByDate(impl, Accumulated(CappedCommits))
            IN Last(datasets') = [label |-> CurrentRepo, data |-> grouped.data,
                                  labels |-> grouped.labels]
    ]_vars

C15_Witness ==
  /\ platform = "github"
  /\ pc = "Processing"
  /\ outcomes # <<>>
  /\ Last(outcomes).status = 200
  /\ Last(outcomes).items = 1
  /\ Last(outcomes).kind = "series"
  /\ Last(outcomes).n = PageCap
  /\ totalCommits = PageCap

\* C16 as stated: in the GitHub variant a listing whose commit request was
\* answered with 409 returned an empty list; the repository is counted as
\* skipped for having no commits and is not recorded as failed.
C16_ConflictMeansEmpty ==
  platform = "github" =>
    /\ \A k \in DOMAIN outcomes :
         outcomes[k].status = 409 => outcomes[k].kind = "empty" /\ outcomes[k].n = 0
    /\ \A k \in DOMAIN errors : ~Includes(errors[k].error, "409")
    /\ skippedRepos = Len(ReposEnding("empty")) + Len(errors)

\* The status of the discovery response that was not a success.
FailingStatus ==
  IF answer[1].userStatus # 200 THEN answer[1].userStatus ELSE answer[1].status

\* The failure kinds of the provider contract, read off the message as the
\* providers' own catch blocks do.
NotFound(msg) == Includes(msg, "not found")
RateLimited(msg) == Includes(msg, "rate limit")
ProviderError(msg) ==
  /\ ~NotFound(msg) /\ ~RateLimited(msg)
  /\ \E prefix \in {"GitHub API error: ", "GitLab API error: ",
                     "Bitbucket API error: ", "SourceHut API error: "} :
       Includes(msg, prefix)

\* C17 as stated: in every provider variant a failed discovery is NotFound
\* when the identity does not resolve or the platform answers 404,
\* RateLimited when it answers 403 or 429, and a ProviderError for every
\* other non-success status.
C17_DiscoveryFailureKinds ==
  DiscoveryFailed =>
    /\ IdentityMissing \/ FailingStatus = 404 => NotFound(failure)
    /\ FailingStatus \in {403, 429} => RateLimited(failure)
    /\ FailingStatus \notin {200, 403, 404, 429} => ProviderError(failure)

\* The days groupByDate puts the given commits on, in the order given.
GivenDays == [k \in DOMAIN given |-> DateKey(impl, given[k])]

\* C18: for every commit list the labels groupByDate returns are strictly
\* ascending, there are as many counts as labels, and the counts add up to
\* the number of commits in the list.
C18_BucketsOrderedAndComplete ==
  buckets # <<>> =>
    LET labels == buckets[1].labels
        counts == buckets[1].data
    IN /\ \A j, k \in DOMAIN labels : j < k => labels[j] < labels[k]
       /\ Len(counts) = Len(labels)
       /\ SumSeq(counts) = Len(given)

C18_Witness ==
  /\ buckets # <<>>
  /\ GivenDays = <<3, 2, 2>>
  /\ buckets[1].labels = <<2, 3>>
  /\ SumSeq(buckets[1].data) = 3

\* The number of given commits that groupByDate puts on day d.
CommitsOn(d) == Cardinality({j \in DOMAIN given : GivenDays[j] = d})

\* C19: the labels groupByDate returns are exactly the days that have at
\* least one of the given commits, each once, and each count is the number of
\* commits of its label's day, so it is at least 1 and no day without
\* commits appears; commits on days 1, 1, 3 give labels <<1, 3>> and counts
\* <<2, 1>>.
C19_LabelsAreCommitDays ==
  buckets # <<>> =>
    LET labels == buckets[1].labels
        counts == buckets[1].data
    IN /\ {labels[k] : k \in DOMAIN labels} = {GivenDays[j] : j \in DOMAIN given}
       /\ \A j, k \in DOMAIN labels : labels[j] = labels[k] => j = k
       /\ DOMAIN counts = DOMAIN labels
       /\ \A k \in DOMAIN labels :
            counts[k] = CommitsOn(labels[k]) /\ counts[k] >= 1
       /\ GivenDays = <<1, 1, 3>> => labels = <<1, 3>> /\ counts = <<2, 1>>

C19_Witness ==
  /\ buckets # <<>>
  /\ GivenDays = <<1, 1, 3>>
  /\ buckets[1] = [labels |-> <<1, 3>>, data |-> <<2, 1>>]

\* The UTC calendar day of a commit a provider built: the js providers keep
\* the platform's date string (written day and zone offset), the ts ones
\* hold the instant.
UtcDay(i, c) == IF i = "js" THEN c.date.ymd + c.date.shift ELSE c.date

GivenUtcDays == [k \in DOMAIN given |-> UtcDay(impl, given[k])]

\* C20 as stated: commits are grouped by their UTC calendar day. Two given
\* commits of the same UTC day are counted in one bucket, the labels are the
\* UTC days of the given commits, and each count is the number of commits of
\* that UTC day.
C20_GroupedByUtcDay ==
  buckets # <<>> =>
    LET labels == buckets[1].labels
        counts == buckets[1].data
    IN /\ \A j, k \in DOMAIN given :
            GivenUtcDays[j] = GivenUtcDays[k] => GivenDays[j] = GivenDays[k]
       /\ {labels[k] : k \in DOMAIN labels} = {GivenUtcDays[j] : j \in DOMAIN given}
       /\ \A k \in DOMAIN labels :
            counts[k] = Cardinality({j \in DOMAIN given : GivenUtcDays[j] = labels[k]})

\* The positions of the offered listing whose repository is to be kept: a
\* listed size or commit count above zero (an absent count is zero to the
\* filter), and on GitHub not a fork.
KeptPositions ==
  {k \in DOMAIN offered[1].listing :
     /\ offered[1].listing[k].size > 0
     /\ platform = "github" => ~offered[1].listing[k].fork}

\* The names of the listed repositories to be kept, each once per listing
\* entry, in the order of the platform's listing.
KeptNames ==
  [j \in 1..Cardinality(KeptPositions) |->
     LET k == CHOOSE k \in KeptPositions :
                Cardinality({m \in KeptPositions : m <= k}) = j
     IN offered[1].listing[k].name]

\* C21 as stated: a discovery that succeeds returns the names of exactly the
\* listed repositories with a non-zero size or commit count (on GitHub: that
\* are not forks either), each once per listing entry, in the order of the
\* platform's listing.
C21_ListedReposFiltered ==
  listed # <<>> /\ listed[1].ok => listed[1].value = KeptNames

\* C21 for the provider copies that filter (every one but the plain
\* JavaScript copies of the GitLab and the Bitbucket provider), and what the
\* plain copies return instead: every listed name, in listing order.
C21_FilteringCopiesFilter ==
  listed # <<>> /\ listed[1].ok =>
    IF revision = "plain"
    THEN listed[1].value = AllNames(offered[1].listing)
    ELSE listed[1].value = KeptNames

\* The platform commits a paginated listing has fetched when its last page
\* request is answered: one per request, as far as the history goes.
FetchedCommits ==
  SubSeq(history, 1, IF walk.requests < Len(history) THEN walk.requests ELSE Len(history))

NonMerges(commits) == SelectSeq(commits, LAMBDA c : ~c.isMerge)

\* C22 as stated: on the GitHub, GitLab and Bitbucket variants a listing that
\* ends on an ok response adds to the total, and to the series of the
\* repository, no more than the fetched commits that are not merges when
\* merges are excluded, and every fetched commit when they are included.
C22_MergesExcludedOnRequest ==
  [][ /\ ListingEnds
      /\ platform \in {"github", "gitlab", "bitbucket"}
      /\ Last(outcomes').status = 200
      => LET counted == totalCommits' - totalCommits
             series == IF Len(datasets') > Len(datasets)
                       THEN SumSeq(Last(datasets').data) ELSE 0
         IN IF includeMerges
            THEN counted = Len(FetchedCommits) /\ series = Len(FetchedCommits)
            ELSE /\ counted <= Len(NonMerges(FetchedCommits))
                 /\ series <= Len(NonMerges(FetchedCommits))
    ]_vars

\* C22 for the JavaScript providers that filter what they return (every
\* copy but the plain ones): the commits counted are exactly the fetched
\* ones that are not merges.
C22_JsProvidersFilter ==
  [][ /\ ListingEnds
      /\ ProviderSource(impl, revision) \in {"js", "part_001"}
      /\ platform \in {"github", "gitlab", "bitbucket"}
      /\ Last(outcomes').status = 200
      /\ ~includeMerges
      => totalCommits' - totalCommits = Len(NonMerges(FetchedCommits))
    ]_vars

\* C23: on the SourceHut variant a listing answered with an ok response
\* returns every commit of the response and does not fail, whether merges
\* are excluded or not; all of them are counted.
C23_SourceHutIgnoresMergeFlag ==
  [][ /\ ListingEnds
      /\ platform = "sourcehut"
      /\ Last(outcomes').status = 200
      => /\ Last(outcomes').kind # "failed"
         /\ Last(outcomes').n = Last(outcomes').items
         /\ totalCommits' - totalCommits = Last(outcomes').items
    ]_vars

C23_Witness ==
  /\ platform = "sourcehut"
  /\ ~includeMerges
  /\ outcomes # <<>>
  /\ Last(outcomes).status = 200
  /\ Last(outcomes).items = 3
  /\ Last(outcomes).n = 3
  /\ Last(outcomes).kind = "series"

\* The provider calls that have been made and have not yet returned or
\* thrown: discoveries without an answer and listings without an outcome.
Outstanding ==
  (Len(DiscoveryCalls) - Len(answer))
    + (Len(ListedRepos) - Len(SelectSeq(outcomes, LAMBDA x : x.status # 0)))

\* C24: at most one provider call is outstanding at any moment. A commit
\* listing is requested only when the discovery and every earlier listing
\* have returned or failed, and within a listing each further page is
\* requested, one at a time, on the arrival of the page before it.
C24_OneCallAtATime ==
  [][ /\ Outstanding' \in {0, 1}
      /\ Len(ListedRepos') > Len(ListedRepos) =>
           /\ Outstanding = 0
           /\ Len(ListedRepos') = Len(outcomes) + 1
           /\ Len(outcomes') = Len(outcomes)
      /\ walk'.requests > walk.requests =>
           /\ pc = "Listing"
           /\ Outstanding = 1
           /\ walk'.requests = walk.requests + 1
    ]_vars

C24_Witness ==
  /\ pc = "Listing"
  /\ Len(DiscoveryCalls) = 1
  /\ Len(answer) = 1
  /\ Len(ListedRepos) = 2
  /\ Len(outcomes) = 1
  /\ walk.requests = 2

\* C25 as stated: a run whose platform is not one of the four supported
\* ones, or whose username is the empty string, fails on leaving Init and
\* has made no provider call.
C25_InvalidInputsFailInInit ==
  (platform \notin Platforms \/ username = "") /\ pc # "Init" =>
     pc = "Failed" /\ calls = <<>>

\* C25 for a platform under which the providers table holds nothing, not
\* even an inherited property: the run fails in Init, with "Unsupported
\* platform", before any provider call.
C25_UnsupportedPlatformFails ==
  ProviderClass(platform) = "undefined" /\ pc # "Init" =>
     /\ pc = "Failed"
     /\ failure = <<"Unsupported platform: ", platform>>
     /\ calls = <<>>

\* The commit total of the dataset with the given label.
TotalOf(name) ==
  LET k == CHOOSE k \in DOMAIN datasets : datasets[k].label = name
  IN SumSeq(datasets[k].data)

\* The position in datasets of the dataset with the given label.
PositionOf(name) == CHOOSE k \in DOMAIN datasets : datasets[k].label = name

\* Dataset j comes before dataset k in the ranking: a larger total, or the
\* same total and an earlier place in the input.
RanksBefore(j, k) ==
  \/ SumSeq(datasets[j].data) > SumSeq(datasets[k].data)
  \/ SumSeq(datasets[j].data) = SumSeq(datasets[k].data) /\ j < k

\* C26: topRepos holds the first 5 entries (all of them when there are
\* fewer) of the ranking of the datasets by commit total, largest first,
\* datasets with equal totals in input order; each entry carries the
\* dataset's label and total.
C26_TopReposRanked ==
  stats # <<>> /\ datasets # <<>> =>
    LET top == stats[1].topRepos
    IN /\ Len(top) = IF Len(datasets) < TopShown THEN Len(datasets) ELSE TopShown
       /\ \A r \in DOMAIN top :
            /\ \E k \in DOMAIN datasets : datasets[k].label = top[r].name
            /\ top[r].commits = TotalOf(top[r].name)
            /\ Cardinality({j \in DOMAIN datasets :
                              RanksBefore(j, PositionOf(top[r].name))}) = r - 1

C26_Witness ==
  /\ stats # <<>>
  /\ Len(datasets) = 6
  /\ [k \in 1..6 |-> SumSeq(datasets[k].data)] = <<1, 10, 30, 10, 0, 1>>
  /\ [r \in 1..5 |-> stats[1].topRepos[r].name] = <<"c", "b", "d", "a", "f">>

\* C27: averageCommitsPerRepo is the integer nearest to the total of all
\* commits divided by the number of datasets.
C27_AveragePerRepoRounded ==
  stats # <<>> /\ datasets # <<>> =>
    LET n == stats[1].averageCommitsPerRepo
        count == Len(datasets)
        total == SumOfData(datasets)
        twice == 2 * (total - n * count)
    IN /\ n \in Nat
       /\ stats[1].totalCommits = total
       /\ stats[1].repositoriesAnalyzed = count
       /\ twice <= count
       /\ -twice <= count

C27_Witness ==
  /\ stats # <<>>
  /\ Len(datasets) = 2
  /\ SumSeq(datasets[1].data) = 10
  /\ SumSeq(datasets[2].data) = 30
  /\ stats[1].averageCommitsPerRepo = 20
  /\ stats[1].topRepos[1].name = "b"

\* Every label of every dataset.
AllLabels ==
  UNION {{datasets[k].labels[j] : j \in DOMAIN datasets[k].labels} : k \in DOMAIN datasets}

\* C28: when some dataset has a label, dateRange.start is the smallest and
\* dateRange.end the largest label of all datasets, and dateRange.days is
\* the number of days from the one to the other; when no dataset has a
\* label, start and end are null and days is 0.
C28_DateRangeSpansLabels ==
  stats # <<>> /\ datasets # <<>> =>
    LET range == stats[1].dateRange
    IN IF AllLabels = {}
       THEN range.start = Null /\ range.end = Null /\ range.days = 0
       ELSE /\ Len(range.start) = 1 /\ Len(range.end) = 1
            /\ range.start[1] \in AllLabels
            /\ range.end[1] \in AllLabels
            /\ \A d \in AllLabels : range.start[1] <= d /\ d <= range.end[1]
            /\ range.days = range.end[1] - range.start[1]

\* Labels that are not in ascending order across the datasets, and a run
\* of datasets that have none.
C28_Witness ==
  /\ stats # <<>>
  /\ Len(datasets) = 2
  /\ datasets[1].labels = <<2>>
  /\ datasets[2].labels = <<1, 3>>
  /\ stats[1].dateRange = [start |-> <<1>>, end |-> <<3>>, days |-> 2]

C28_WitnessNoLabels ==
  /\ stats # <<>>
  /\ Len(datasets) = 2
  /\ AllLabels = {}
  /\ stats[1].dateRange = [start |-> Null, end |-> Null, days |-> 0]

\* C29: the labels merged for the common axis of the line chart are the
\* union of the labels of all datasets: every label of some dataset is
\* there exactly once, nothing else is, and they ascend.
C29_AxisIsUnionOfLabels ==
  allDates # <<>> =>
    LET axis == allDates[1]
    IN /\ {axis[k] : k \in DOMAIN axis} = AllLabels
       /\ Len(axis) = Cardinality(AllLabels)
       /\ \A j, k \in DOMAIN axis : j < k => axis[j] < axis[k]

C29_Witness ==
  /\ allDates # <<>>
  /\ Len(datasets) = 3
  /\ datasets[1].labels = <<2>>
  /\ datasets[2].labels = <<1, 3>>
  /\ datasets[3].labels = <<1>>
  /\ allDates[1] = <<1, 2, 3>>

\* The repositories whose listing did not produce a series, in processing
\* order.
SkippedOutcomes == SelectSeq(outcomes, LAMBDA x : x.kind # "series")

\* C30 as stated: when the loop is over every repository is either in
\* datasets or counted as skipped, the two counts add up to processedRepos
\* and to the length of the list, and every skipped repository is in what
\* the run reports: it has a skip record.
C30_SkippedNeverDropped ==
  LoopOver =>
    /\ Len(datasets) + skippedRepos = processedRepos
    /\ processedRepos = Len(reposToProcess)
    /\ DatasetLabels = ReposEnding("series")
    /\ skippedRepos = Len(SkippedOutcomes)
    /\ \A k \in DOMAIN SkippedOutcomes :
         \E rec \in SkipRecords : rec.repo = SkippedOutcomes[k].repo

====
